---------------------------- MODULE Spec2Model ----------------------------
(***************************************************************************)
(* Model of the Docker module runtime adapter,                             *)
(* edgelet/docker-mri/src/runtime.rs.                                      *)
(*                                                                         *)
(* Strings are sequences of one-character strings, so that splitting,      *)
(* formatting, trimming and slicing are computed and not assumed.          *)
(* Option<T> is a sequence of length 0 (None) or 1 (Some).                 *)
(* HashMap<K, V> is a function whose DOMAIN is the key set.                *)
(* A Vec whose order comes from HashMap iteration is a bag: the order is   *)
(* whatever the hasher produces, the multiset of elements is determined.   *)
(***************************************************************************)
EXTENDS Integers, Sequences, FiniteSets, Bags, TLC

VARIABLES
    network_id,   \* DockerModuleRuntime.network_id : Option<String>
    calls,        \* adapter calls, one record per caller slot
    engine,       \* the containers the engine holds, in the order of their creation
    input,        \* arguments of the function under study
    output        \* its result, once applied

vars == <<network_id, calls, engine, input, output>>

-----------------------------------------------------------------------------
(* Bounds *)

MaxEnvLen == 3      \* length of a "KEY=VALUE" entry of the current env
MaxKeyLen == 1      \* length of a key of the new env mapping
MaxCurLen == 1      \* entries in the current env list
MaxNewKeys == 1     \* keys in the new env mapping
MaxNameLen == 2     \* length of an image name or container id
MaxContainers == 2  \* records in a container-list response
MaxListNameLen == 2 \* length of a reported name

-----------------------------------------------------------------------------
(* Strings and options *)

None == << >>

Some(x) == <<x>>

\* All sequences over S of length at most n.
SeqsUpTo(S, n) == UNION {[1..k -> S] : k \in 0..n}

\* All functions from a subset of K of at most n elements into V.
MapsUpTo(K, V, n) ==
    UNION {[D -> V] : D \in {X \in SUBSET K : Cardinality(X) <= n}}

EnvChars == {"k", "="}

EnvStrings(n) == SeqsUpTo(EnvChars, n)

-----------------------------------------------------------------------------
(* merge_env *)

\* Position of the first '=' of s, or 0 when there is none.
FirstEq(s) ==
    IF \E i \in 1..Len(s) : s[i] = "="
    THEN CHOOSE i \in 1..Len(s) : s[i] = "=" /\ \A j \in 1..(i - 1) : s[j] /= "="
    ELSE 0

\* s.splitn(2, '=').nth(0): everything before the first '=', or all of s.
EnvKey(s) == IF FirstEq(s) = 0 THEN s ELSE SubSeq(s, 1, FirstEq(s) - 1)

\* A variant that splits on every '=' (split instead of splitn(2, ..)): the
\* value ends at the second '='.
EnvValueSplitAll(s) ==
    LET rest == IF FirstEq(s) = 0 THEN << >> ELSE SubSeq(s, FirstEq(s) + 1, Len(s))
    IN  IF FirstEq(rest) = 0 THEN rest ELSE SubSeq(rest, 1, FirstEq(rest) - 1)

\* The next token, .unwrap_or(""): everything after the first '='.
EnvValue(s) == IF FirstEq(s) = 0 THEN << >> ELSE SubSeq(s, FirstEq(s) + 1, Len(s))

\* format!("{}={}", key, value)
FormatEnv(key, value) == key \o <<"=">> \o value

\* HashMap::insert: the value of an existing key is replaced.
MapInsert(m, k, v) == [x \in (DOMAIN m) \cup {k} |-> IF x = k THEN v ELSE m[x]]

\* HashMap::extend with the (key, value) pairs parsed from env, in order.
RECURSIVE ExtendWithEnv(_, _)
ExtendWithEnv(m, env) ==
    IF env = << >> THEN m
    ELSE ExtendWithEnv(MapInsert(m, EnvKey(Head(env)), EnvValue(Head(env))), Tail(env))

\* HashMap::extend with the entries of another map.
ExtendWithMap(m, other) ==
    [x \in (DOMAIN m) \cup (DOMAIN other) |-> IF x \in DOMAIN other THEN other[x] ELSE m[x]]

EmptyMap == [x \in {} |-> << >>]

\* A variant in which the current env is inserted first and the new env last.
merged_env_new_last(cur_env, new_env) ==
    ExtendWithMap(IF cur_env = None THEN EmptyMap ELSE ExtendWithEnv(EmptyMap, cur_env[1]),
                  new_env)

\* The merged_env hash map of merge_env: new_env first, then the current env
\* on top of it.
merged_env(cur_env, new_env) ==
    IF cur_env = None
    THEN ExtendWithMap(EmptyMap, new_env)
    ELSE ExtendWithEnv(ExtendWithMap(EmptyMap, new_env), cur_env[1])

\* The Vec<String> built from a hash map, as a bag of "KEY=VALUE" strings.
EnvVec(m) ==
    LET entries == {FormatEnv(k, m[k]) : k \in DOMAIN m}
    IN  [e \in entries |-> Cardinality({k \in DOMAIN m : FormatEnv(k, m[k]) = e})]

merge_env(cur_env, new_env) == EnvVec(merged_env(cur_env, new_env))

-----------------------------------------------------------------------------
(* Outcomes of an adapter call *)

WAIT_BEFORE_KILL_SECONDS == 10

\* LABELS: the one label of the list filter.
LABELS == <<"net.azure-devices.edge.owner=Microsoft.Azure.Devices.Edge.Agent">>

\* module::MODULE_TYPE, the type create accepts.
DOCKER_MODULE_TYPE == "docker"

NoResult == [tag |-> "none"]

Ok(v) == [tag |-> "ok", value |-> v]

Err(kind, detail) == [tag |-> "err", kind |-> kind, detail |-> detail]

Panic == [tag |-> "panic"]

Unit == "()"

\* A request handed to the engine client: the API method and its arguments in
\* the order of the call.
Request(api, args) == [api |-> api, args |-> args]

\* The call returned future::err(err): nothing was sent. steps lists what the
\* call did, in order.
Failed(err, steps) ==
    [status |-> "done", result |-> err, sent |-> << >>, response |-> "none",
     steps |-> steps]

\* The call returned the future of an engine request.
Issued(req, steps) ==
    [status |-> "pending", result |-> NoResult, sent |-> <<req>>, response |-> "none",
     steps |-> Append(steps, req.api)]

Whitespace == {" "}

\* ensure_not_empty!, fensure_not_empty!: s.trim().is_empty()
IsEmptyArg(s) == \A i \in 1..Len(s) : s[i] \in Whitespace

ArgumentEmpty == Err("Utils", "ArgumentEmpty")

\* The error of a failed fensure!.
ArgumentInvalid == Err("Utils", "Argument")

-----------------------------------------------------------------------------
(* serialize_registry_creds *)

\* AuthConfig: the engine's credential object, every field optional.
AuthConfigNew == [username |-> None, password |-> None, email |-> None,
                  serveraddress |-> None]

\* JSON text is a sequence of tokens: punctuation and quoted strings.
P(c) == [punct |-> c]

S(str) == [string |-> str]

\* serde_json::to_string of a sequence of (name, Option value) fields: a JSON
\* object as a token sequence, a field that is None left out.
RECURSIVE JsonFields(_, _)
JsonFields(fields, first) ==
    IF fields = << >> THEN << >>
    ELSE LET f == Head(fields)
         IN  IF f[2] = None THEN JsonFields(Tail(fields), first)
             ELSE (IF first THEN << >> ELSE <<P(",")>>)
                  \o <<S(f[1]), P(":"), S(f[2][1])>>
                  \o JsonFields(Tail(fields), FALSE)

AuthConfigToJson(a) ==
    <<P("{")>>
    \o JsonFields(<<<<"username", a.username>>, <<"password", a.password>>,
                    <<"email", a.email>>, <<"serveraddress", a.serveraddress>>>>, TRUE)
    \o <<P("}")>>

\* A variant that serializes absent credentials as the default object and
\* never copies the email.
serialize_registry_creds_default(credentials) ==
    IF credentials = None THEN AuthConfigToJson(AuthConfigNew)
    ELSE LET creds == credentials[1]
         IN  AuthConfigToJson([AuthConfigNew EXCEPT
                 !.username = creds.user_name,
                 !.password = creds.password,
                 !.serveraddress = creds.server])

\* serialize_registry_creds: "" for None, else the JSON of an AuthConfig that
\* has the fields of the credentials that are set.
serialize_registry_creds(credentials) ==
    IF credentials = None THEN << >>
    ELSE LET creds == credentials[1]
         IN  AuthConfigToJson([AuthConfigNew EXCEPT
                 !.username = creds.user_name,
                 !.password = creds.password,
                 !.email = creds.email,
                 !.serveraddress = creds.server])

-----------------------------------------------------------------------------
(* ModuleRegistry *)

pull(name, credentials) ==
    LET registry_creds == serialize_registry_creds(credentials)
    IN  IF IsEmptyArg(name)
        THEN Failed(ArgumentEmpty, <<"serialize_registry_creds", "ensure_not_empty">>)
        ELSE Issued(Request("image_create",
                            <<name, << >>, << >>, << >>, << >>, registry_creds, << >> >>),
                    <<"serialize_registry_creds", "ensure_not_empty">>)

remove_image(name) ==
    IF IsEmptyArg(name)
    THEN Failed(ArgumentEmpty, <<"ensure_not_empty">>)
    ELSE Issued(Request("image_delete", <<name, FALSE, FALSE>>), <<"ensure_not_empty">>)

-----------------------------------------------------------------------------
(* ModuleRuntime: start, stop, restart, remove *)

start(id) ==
    IF IsEmptyArg(id)
    THEN Failed(ArgumentEmpty, <<"ensure_not_empty">>)
    ELSE Issued(Request("container_start", <<id, << >> >>), <<"ensure_not_empty">>)

\* A variant of stop without the check of its id.
stop_unchecked(id) ==
    Issued(Request("container_stop", <<id, WAIT_BEFORE_KILL_SECONDS>>), << >>)

stop(id) ==
    IF IsEmptyArg(id)
    THEN Failed(ArgumentEmpty, <<"ensure_not_empty">>)
    ELSE Issued(Request("container_stop", <<id, WAIT_BEFORE_KILL_SECONDS>>),
                <<"ensure_not_empty">>)

restart(id) ==
    IF IsEmptyArg(id)
    THEN Failed(ArgumentEmpty, <<"ensure_not_empty">>)
    ELSE Issued(Request("container_restart", <<id, WAIT_BEFORE_KILL_SECONDS>>),
                <<"ensure_not_empty">>)

\* A variant of remove that leaves every flag of the delete request unset.
remove_no_flags(id) ==
    IF IsEmptyArg(id)
    THEN Failed(ArgumentEmpty, <<"ensure_not_empty">>)
    ELSE Issued(Request("container_delete", <<id, FALSE, FALSE, FALSE>>),
                <<"ensure_not_empty">>)

remove(id) ==
    IF IsEmptyArg(id)
    THEN Failed(ArgumentEmpty, <<"ensure_not_empty">>)
    ELSE Issued(Request("container_delete", <<id, FALSE, TRUE, TRUE>>),
                <<"ensure_not_empty">>)

-----------------------------------------------------------------------------
(* ModuleRuntime: create *)

\* edgelet_utils::serde_clone: a deep copy through serialization. The copy of
\* a part of create-options that clone_create_options has already copied is
\* taken to succeed.
SerdeClone(x) == x

\* EndpointSettings::new()
EndpointSettingsNew == [ipv4_address |-> None]

\* ContainerCreateBodyNetworkingConfig::new()
NetworkingConfigNew == [endpoints_config |-> None]

EmptyEndpoints == [x \in {} |-> EndpointSettingsNew]

\* A variant that inserts the default settings whether or not the key is there.
attach_network_overwrite(net_id, create_options) ==
    LET network_config ==
            IF create_options.networking_config = None THEN NetworkingConfigNew
            ELSE SerdeClone(create_options.networking_config[1])
        endpoints_config ==
            IF network_config.endpoints_config = None THEN EmptyEndpoints
            ELSE SerdeClone(network_config.endpoints_config[1])
    IN  [create_options EXCEPT !.networking_config =
            Some([network_config EXCEPT !.endpoints_config =
                Some(MapInsert(endpoints_config, net_id, EndpointSettingsNew))])]

\* "add the container to the custom network": the create-options with
\* the network id among the endpoints of their networking config.
attach_network(net_id, create_options) ==
    LET network_config ==
            IF create_options.networking_config = None THEN NetworkingConfigNew
            ELSE SerdeClone(create_options.networking_config[1])
        endpoints_config ==
            IF network_config.endpoints_config = None THEN EmptyEndpoints
            ELSE SerdeClone(network_config.endpoints_config[1])
        inserted ==
            IF net_id \in DOMAIN endpoints_config THEN endpoints_config
            ELSE MapInsert(endpoints_config, net_id, EndpointSettingsNew)
    IN  [create_options EXCEPT !.networking_config =
            Some([network_config EXCEPT !.endpoints_config = Some(inserted)])]

\* A variant that puts the ownership label of LABELS on the create-options.
create_body_with_owner_label(net, module) ==
    LET create_options == module.config.create_options
        merged == merge_env(create_options.env, module.env)
        owner == ("net.azure-devices.edge.owner" :> "Microsoft.Azure.Devices.Edge.Agent")
        with_image_env == [create_options EXCEPT
                              !.image = Some(module.config.image),
                              !.env = Some(merged),
                              !.labels = Some(IF create_options.labels = None THEN owner
                                              ELSE owner @@ create_options.labels[1])]
    IN  IF net = None THEN with_image_env ELSE attach_network(net[1], with_image_env)

\* The body of the container-create request.
create_body(net, module) ==
    LET create_options == module.config.create_options
        merged == merge_env(create_options.env, module.env)
        with_image_env == [create_options EXCEPT !.image = Some(module.config.image),
                                                 !.env = Some(merged)]
    IN  IF net = None THEN with_image_env ELSE attach_network(net[1], with_image_env)

CreateSteps(net) ==
    <<"fensure", "clone_create_options", "merge_env", "with_image", "with_env">>
    \o (IF net = None THEN << >> ELSE <<"with_networking_config">>)

\* A variant of create without the check of the module type.
create_unchecked(net, module, clone_ok) ==
    IF ~clone_ok
    THEN Failed(Err("CloneCreateOptions", ""), <<"clone_create_options">>)
    ELSE Issued(Request("container_create", <<create_body(net, module), module.name>>),
                Tail(CreateSteps(net)))

\* A variant in which the adapter keeps one working copy of create-options for
\* its creates: a create that starts while another is in flight does not
\* attach the network again.
create_shared_working_copy(net, module, clone_ok) ==
    LET busy == \E d \in DOMAIN calls :
                    calls[d].op = "create" /\ calls[d].status = "pending"
        attached == IF busy THEN None ELSE net
    IN  IF module.type /= DOCKER_MODULE_TYPE
        THEN Failed(ArgumentInvalid, <<"fensure">>)
        ELSE IF ~clone_ok
             THEN Failed(Err("CloneCreateOptions", ""), <<"fensure", "clone_create_options">>)
             ELSE Issued(Request("container_create",
                                 <<create_body(attached, module), module.name>>),
                         CreateSteps(attached))

\* create, for an adapter with network id net; clone_ok is the outcome of
\* clone_create_options.
create(net, module, clone_ok) ==
    IF module.type /= DOCKER_MODULE_TYPE
    THEN Failed(ArgumentInvalid, <<"fensure">>)
    ELSE IF ~clone_ok
         THEN Failed(Err("CloneCreateOptions", ""), <<"fensure", "clone_create_options">>)
         ELSE Issued(Request("container_create",
                             <<create_body(net, module), module.name>>),
                     CreateSteps(net))

\* A variant that sets the image, the env and the networking config on the
\* create-options of the module itself, without a copy.
create_values_in_place(net, module, clone_ok) ==
    IF module.type /= DOCKER_MODULE_TYPE \/ ~clone_ok
    THEN [module |-> module, create_options |-> None]
    ELSE [module |-> [module EXCEPT !.config.create_options = create_body(net, module)],
          create_options |-> Some(create_body(net, module))]

\* The values create holds when it returns: the module spec it was given,
\* which it only reads, and the create-options that clone_create_options
\* returned and with_image, with_env and with_networking_config rebuilt.
create_values(net, module, clone_ok) ==
    IF module.type /= DOCKER_MODULE_TYPE \/ ~clone_ok
    THEN [module |-> module, create_options |-> None]
    ELSE [module |-> module, create_options |-> Some(create_body(net, module))]

-----------------------------------------------------------------------------
(* ModuleRuntime: list *)

\* serde_json::to_string of the filters map {"label": LABELS}.
FiltersJson ==
    <<P("{"), S("label"), P(":"), P("[")>>
    \o [i \in 1..Len(LABELS) |-> S(LABELS[i])]
    \o <<P("]"), P("}")>>

list ==
    Issued(Request("container_list", <<TRUE, 0, TRUE, FiltersJson>>), <<"to_string">>)

\* A character that takes two bytes in UTF-8.
WideChar == "U+00E9"

ListNameChars == {"/", "m", WideChar}

Unknown == <<"U", "n", "k", "n", "o", "w", "n">>

\* Whether byte 1 of s is a character boundary within s, which &s[1..] needs.
CanSliceFrom1(s) == s /= << >> /\ s[1] /= WideChar

\* names().iter().nth(0).map(|s| &s[1..]).unwrap_or("Unknown"); a slice out
\* of range or off a character boundary panics.
display_name(names) ==
    IF names = << >> THEN Ok(Unknown)
    ELSE IF CanSliceFrom1(names[1]) THEN Ok(Tail(names[1]))
         ELSE Panic

\* DockerConfig::new(image, create options with the labels): None when no
\* Config can be derived from the record.
DockerConfig_new(image, labels) ==
    IF labels.wellformed
    THEN Some([image |-> image, create_options |-> [labels |-> Some(labels.entries)]])
    ELSE None

\* DockerModule::new(client, name, config)
DockerModule_new(name, config) == Some([name |-> name, config |-> config])

\* The closure list() maps over the engine's records: the records are taken
\* in order, a record without Config is skipped, and a panic ends the call.
RECURSIVE list_modules(_)
list_modules(containers) ==
    IF containers = << >> THEN Ok(<< >>)
    ELSE LET container == Head(containers)
             config == DockerConfig_new(container.image, container.labels)
         IN  IF config = None THEN list_modules(Tail(containers))
             ELSE LET name == display_name(container.names)
                  IN  IF name.tag = "panic" THEN Panic
                      ELSE LET rest == list_modules(Tail(containers))
                           IN  IF rest.tag = "panic" THEN Panic
                               ELSE Ok(DockerModule_new(name.value, config[1])
                                       \o rest.value)

-----------------------------------------------------------------------------
(* The engine's answer to a request *)

\* A variant that sends the request again when the engine reports a failure.
on_failure_retry(call) ==
    [call EXCEPT !.sent = Append(call.sent, call.sent[1]), !.response = "failure"]

\* map_err: the engine's failure becomes the error of the call.
on_failure(call) ==
    [call EXCEPT !.status = "done", !.result = Err("Docker", ""), !.response = "failure"]

\* map: the engine's answer becomes the result of the call.
on_success(call, body) ==
    [call EXCEPT !.status = "done",
                 !.result = IF call.op = "list" THEN list_modules(body) ELSE Ok(Unit),
                 !.response = "success"]

-----------------------------------------------------------------------------
(* Inputs *)

NoInput == [fn |-> "none"]

NoOutput == [fn |-> "none"]

NameChars == {" ", "m"}

\* Image names and container ids.
Names == SeqsUpTo(NameChars, MaxNameLen)

CredStrings == {"", "x"}

OptCred == {None} \cup {Some(v) : v \in CredStrings}

CredentialInputs ==
    {None} \cup {Some(c) : c \in [user_name : OptCred, password : OptCred,
                                  email : OptCred, server : OptCred]}

CurEnvInputs == {None} \cup {Some(l) : l \in SeqsUpTo(EnvStrings(MaxEnvLen), MaxCurLen)}

NewEnvValues == EnvStrings(1)

NewEnvInputs == MapsUpTo(EnvStrings(MaxKeyLen), NewEnvValues, MaxNewKeys)

NetworkIds == {"net"}

EndpointKeys == {"net", "other"}

EndpointSettingsInputs == {EndpointSettingsNew, [ipv4_address |-> Some("10.0.0.2")]}

EndpointsInputs == UNION {[D -> EndpointSettingsInputs] : D \in SUBSET EndpointKeys}

NetworkingConfigInputs ==
    {None, Some(NetworkingConfigNew)}
    \cup {Some([endpoints_config |-> Some(e)]) : e \in EndpointsInputs}

OwnerLabels == ("net.azure-devices.edge.owner" :> "Microsoft.Azure.Devices.Edge.Agent")

CreateOptionsInputs ==
    [image : {None},
     env : {None, Some(<<<<"k", "=", "k">>>>)},
     labels : {None, Some(OwnerLabels)},
     networking_config : NetworkingConfigInputs]

ModuleSpecInputs ==
    [name : {"m1"},
     type : {DOCKER_MODULE_TYPE, "not_docker"},
     config : [image : {"nginx:latest"}, create_options : CreateOptionsInputs],
     env : {EmptyMap, (<<"k">> :> << >>)}]

ReportedNames == SeqsUpTo(ListNameChars, MaxListNameLen)

\* The names of a record: none, one, or one followed by another.
NamesInputs ==
    {<< >>} \cup {<<n>> : n \in ReportedNames}
            \cup {<<n, <<"/", "m">>>> : n \in ReportedNames}

ContainerInputs ==
    [names : NamesInputs,
     image : {"nginx:latest"},
     labels : [wellformed : BOOLEAN, entries : {OwnerLabels}]]

ContainerLists == SeqsUpTo(ContainerInputs, MaxContainers)

-----------------------------------------------------------------------------
(* The adapter: calls and the engine's answers *)

Callers == {"caller"}

Idle ==
    [op |-> "idle", args |-> << >>, status |-> "idle", result |-> NoResult,
     sent |-> << >>, response |-> "none", steps |-> << >>]

Call(op, args, outcome) ==
    [op |-> op, args |-> args, status |-> outcome.status, result |-> outcome.result,
     sent |-> outcome.sent, response |-> outcome.response, steps |-> outcome.steps]

Init ==
    /\ network_id \in {None} \cup {Some(n) : n \in NetworkIds}
    /\ calls = [c \in Callers |-> Idle]
    /\ engine = << >>
    /\ input = NoInput
    /\ output = NoOutput

Pull(c, name, credentials) ==
    /\ calls[c].status = "idle"
    /\ calls' = [calls EXCEPT ![c] = Call("pull", <<name, credentials>>, pull(name, credentials))]
    /\ UNCHANGED <<network_id, engine, input, output>>

RemoveImage(c, name) ==
    /\ calls[c].status = "idle"
    /\ calls' = [calls EXCEPT ![c] = Call("remove_image", <<name>>, remove_image(name))]
    /\ UNCHANGED <<network_id, engine, input, output>>

Create(c, module, clone_ok) ==
    /\ calls[c].status = "idle"
    /\ calls' = [calls EXCEPT ![c] = Call("create", <<module>>, create(network_id, module, clone_ok))]
    /\ UNCHANGED <<network_id, engine, input, output>>

Start(c, id) ==
    /\ calls[c].status = "idle"
    /\ calls' = [calls EXCEPT ![c] = Call("start", <<id>>, start(id))]
    /\ UNCHANGED <<network_id, engine, input, output>>

Stop(c, id) ==
    /\ calls[c].status = "idle"
    /\ calls' = [calls EXCEPT ![c] = Call("stop", <<id>>, stop(id))]
    /\ UNCHANGED <<network_id, engine, input, output>>

Restart(c, id) ==
    /\ calls[c].status = "idle"
    /\ calls' = [calls EXCEPT ![c] = Call("restart", <<id>>, restart(id))]
    /\ UNCHANGED <<network_id, engine, input, output>>

Remove(c, id) ==
    /\ calls[c].status = "idle"
    /\ calls' = [calls EXCEPT ![c] = Call("remove", <<id>>, remove(id))]
    /\ UNCHANGED <<network_id, engine, input, output>>

List(c) ==
    /\ calls[c].status = "idle"
    /\ calls' = [calls EXCEPT ![c] = Call("list", << >>, list)]
    /\ UNCHANGED <<network_id, engine, input, output>>

EngineFails(c) ==
    /\ calls[c].status = "pending"
    /\ calls' = [calls EXCEPT ![c] = on_failure(calls[c])]
    /\ UNCHANGED <<network_id, engine, input, output>>

\* What the engine may answer to the request of a call.
Bodies(call) ==
    IF call.op = "list" THEN {<< >>} \cup {<<r>> : r \in ContainerInputs} ELSE {<< >>}

EngineSucceeds(c) ==
    /\ calls[c].status = "pending"
    /\ \E body \in Bodies(calls[c]) :
         calls' = [calls EXCEPT ![c] = on_success(calls[c], body)]
    /\ UNCHANGED <<network_id, engine, input, output>>

Next ==
    \E c \in Callers :
        \/ \E name \in Names, credentials \in CredentialInputs : Pull(c, name, credentials)
        \/ \E name \in Names : RemoveImage(c, name)
        \/ \E module \in ModuleSpecInputs, clone_ok \in BOOLEAN : Create(c, module, clone_ok)
        \/ \E id \in Names : Start(c, id)
        \/ \E id \in Names : Stop(c, id)
        \/ \E id \in Names : Restart(c, id)
        \/ \E id \in Names : Remove(c, id)
        \/ List(c)
        \/ EngineFails(c)
        \/ EngineSucceeds(c)

Spec == Init /\ [][Next]_vars

-----------------------------------------------------------------------------
(* merge_env alone *)

InitEnv ==
    /\ network_id = None
    /\ calls = [c \in Callers |-> Idle]
    /\ engine = << >>
    /\ input \in {[fn |-> "merge_env", cur_env |-> c, new_env |-> n] :
                    c \in CurEnvInputs, n \in NewEnvInputs}
    /\ output = NoOutput

MergeEnv ==
    /\ input.fn = "merge_env"
    /\ output.fn = "none"
    /\ output' = [fn |-> "merge_env", result |-> merge_env(input.cur_env, input.new_env)]
    /\ UNCHANGED <<network_id, calls, engine, input>>

NextEnv == MergeEnv

SpecEnv == InitEnv /\ [][NextEnv]_vars

-----------------------------------------------------------------------------
(* serialize_registry_creds alone *)

InitAuth ==
    /\ network_id = None
    /\ calls = [c \in Callers |-> Idle]
    /\ engine = << >>
    /\ input \in {[fn |-> "serialize_registry_creds", credentials |-> c] :
                    c \in CredentialInputs}
    /\ output = NoOutput

SerializeRegistryCreds ==
    /\ input.fn = "serialize_registry_creds"
    /\ output.fn = "none"
    /\ output' = [fn |-> "serialize_registry_creds",
                  result |-> serialize_registry_creds(input.credentials)]
    /\ UNCHANGED <<network_id, calls, engine, input>>

NextAuth == SerializeRegistryCreds

SpecAuth == InitAuth /\ [][NextAuth]_vars

-----------------------------------------------------------------------------
(* The mapping of list() over the engine's records alone *)

InitList ==
    /\ network_id = None
    /\ calls = [c \in Callers |-> Idle]
    /\ engine = << >>
    /\ input \in {[fn |-> "list", containers |-> l] : l \in ContainerLists}
    /\ output = NoOutput

ListModules ==
    /\ input.fn = "list"
    /\ output.fn = "none"
    /\ output' = [fn |-> "list", result |-> list_modules(input.containers)]
    /\ UNCHANGED <<network_id, calls, engine, input>>

NextList == ListModules

SpecList == InitList /\ [][NextList]_vars

-----------------------------------------------------------------------------
(* Concurrent calls of one adapter *)

ConcCallers == {"c1", "c2"}

ConcIds == {<< >>, <<"m">>}

ConcCredentials ==
    {None, Some([user_name |-> Some("x"), password |-> Some("x"),
                 email |-> None, server |-> None])}

ConcModules ==
    {m \in ModuleSpecInputs :
        /\ m.config.create_options.labels = None
        /\ m.config.create_options.env /= None
        /\ m.config.create_options.networking_config
             \in {None, Some([endpoints_config |->
                     Some("other" :> [ipv4_address |-> Some("10.0.0.2")])])}}

InitConc ==
    /\ network_id \in {None} \cup {Some(n) : n \in NetworkIds}
    /\ calls = [c \in ConcCallers |-> Idle]
    /\ engine = << >>
    /\ input = NoInput
    /\ output = NoOutput

NextConc ==
    \E c \in ConcCallers :
        \/ \E name \in ConcIds, credentials \in ConcCredentials : Pull(c, name, credentials)
        \/ \E name \in ConcIds : RemoveImage(c, name)
        \/ \E module \in ConcModules, clone_ok \in BOOLEAN : Create(c, module, clone_ok)
        \/ \E id \in ConcIds : Start(c, id)
        \/ \E id \in ConcIds : Stop(c, id)
        \/ \E id \in ConcIds : Restart(c, id)
        \/ \E id \in ConcIds : Remove(c, id)
        \/ List(c)
        \/ EngineFails(c)
        \/ EngineSucceeds(c)

SpecConc == InitConc /\ [][NextConc]_vars

-----------------------------------------------------------------------------
(* create alone, with the module spec as create leaves it *)

InitCreate ==
    /\ network_id \in {None} \cup {Some(n) : n \in NetworkIds}
    /\ calls = [c \in Callers |-> Idle]
    /\ engine = << >>
    /\ input \in {[fn |-> "create", module |-> m, clone_ok |-> b] :
                    m \in ModuleSpecInputs, b \in BOOLEAN}
    /\ output = NoOutput

CreateCalled ==
    /\ input.fn = "create"
    /\ output.fn = "none"
    /\ output' = [fn |-> "create",
                  call |-> Call("create", <<input.module>>,
                                create(network_id, input.module, input.clone_ok)),
                  module |-> create_values(network_id, input.module, input.clone_ok).module]
    /\ UNCHANGED <<network_id, calls, engine, input>>

CreateFails ==
    /\ output.fn = "create"
    /\ output.call.status = "pending"
    /\ output' = [output EXCEPT !.call = on_failure(output.call)]
    /\ UNCHANGED <<network_id, calls, engine, input>>

CreateSucceeds ==
    /\ output.fn = "create"
    /\ output.call.status = "pending"
    /\ output' = [output EXCEPT !.call = on_success(output.call, << >>)]
    /\ UNCHANGED <<network_id, calls, engine, input>>

NextCreate == CreateCalled \/ CreateFails \/ CreateSucceeds

SpecCreate == InitCreate /\ [][NextCreate]_vars

-----------------------------------------------------------------------------
(* create and list against an engine that keeps its containers *)

\* The text "key=value" of the labels in use.
LabelTexts ==
    (<<"net.azure-devices.edge.owner", "Microsoft.Azure.Devices.Edge.Agent">>
        :> "net.azure-devices.edge.owner=Microsoft.Azure.Devices.Edge.Agent")
    @@ (<<"app", "web">> :> "app=web")

NoLabels == [x \in {} |-> ""]

\* The label texts a container carries.
LabelsOf(container) ==
    {LabelTexts[<<k, container.labels.entries[k]>>] : k \in DOMAIN container.labels.entries}

\* The labels a filters argument asks for: the strings of its "label" array.
RequestedLabels(filters) ==
    LET open == CHOOSE i \in 1..Len(filters) : filters[i] = P("[")
        close == CHOOSE i \in 1..Len(filters) : filters[i] = P("]")
    IN  {filters[i].string : i \in (open + 1)..(close - 1)}

\* container-list: the containers that carry every requested label.
EngineList(filters) ==
    LET Matches(container) == RequestedLabels(filters) \subseteq LabelsOf(container)
    IN  SelectSeq(engine, Matches)

\* container-create: the record of a container made from a create request;
\* the engine reports its name with the leading separator.
EngineContainer(body, name) ==
    [names |-> <<<<"/", name>>>>,
     image |-> body.image[1],
     labels |-> [wellformed |-> TRUE,
                 entries |-> IF body.labels = None THEN NoLabels ELSE body.labels[1]]]

EngineNames == {engine[i].names[1] : i \in 1..Len(engine)}

\* Containers that exist before the adapter is used: one of the domain's own
\* and one of somebody else.
AgentContainer ==
    [names |-> <<<<"/", "edgeAgent">>>>, image |-> "nginx:latest",
     labels |-> [wellformed |-> TRUE, entries |-> OwnerLabels]]

ForeignContainer ==
    [names |-> <<<<"/", "web">>>>, image |-> "nginx:latest",
     labels |-> [wellformed |-> TRUE, entries |-> ("app" :> "web")]]

EngineModules ==
    {m \in ModuleSpecInputs :
        /\ m.type = DOCKER_MODULE_TYPE
        /\ m.config.create_options.env = None
        /\ m.config.create_options.networking_config = None}

InitEngine ==
    /\ network_id \in {None} \cup {Some(n) : n \in NetworkIds}
    /\ calls = [c \in Callers |-> Idle]
    /\ engine \in {<< >>, <<AgentContainer>>, <<ForeignContainer>>,
                   <<AgentContainer, ForeignContainer>>}
    /\ input = NoInput
    /\ output = NoOutput

\* The engine creates the container of a pending create; names are unique.
EngineCreates(c) ==
    /\ calls[c].op = "create"
    /\ calls[c].status = "pending"
    /\ <<"/", calls[c].sent[1].args[2]>> \notin EngineNames
    /\ engine' = Append(engine, EngineContainer(calls[c].sent[1].args[1],
                                                calls[c].sent[1].args[2]))
    /\ calls' = [calls EXCEPT ![c] = on_success(calls[c], << >>)]
    /\ UNCHANGED <<network_id, input, output>>

\* The engine answers a pending list with the containers its filter selects.
EngineLists(c) ==
    /\ calls[c].op = "list"
    /\ calls[c].status = "pending"
    /\ calls' = [calls EXCEPT ![c] = on_success(calls[c], EngineList(calls[c].sent[1].args[4]))]
    /\ UNCHANGED <<network_id, engine, input, output>>

\* The caller has the result of its call and is free to call again.
Returned(c) ==
    /\ calls[c].status = "done"
    /\ calls' = [calls EXCEPT ![c] = Idle]
    /\ UNCHANGED <<network_id, engine, input, output>>

NextEngine ==
    \E c \in Callers :
        \/ \E module \in EngineModules, clone_ok \in BOOLEAN : Create(c, module, clone_ok)
        \/ List(c)
        \/ EngineFails(c)
        \/ EngineCreates(c)
        \/ EngineLists(c)
        \/ Returned(c)

SpecEngine == InitEngine /\ [][NextEngine]_vars

-----------------------------------------------------------------------------
(* Properties of merge_env *)

HasEq(s) == \E i \in 1..Len(s) : s[i] = "="

\* The key of a "KEY=VALUE" string: its longest prefix free of '='.
EntryKey(e) ==
    CHOOSE p \in {SubSeq(e, 1, n) : n \in 0..Len(e)} :
        /\ ~HasEq(p)
        /\ (Len(p) = Len(e) \/ e[Len(p) + 1] = "=")

\* An entry written as "KEY=VALUE": an entry without '=' has the empty value.
AsKeyValue(e) == IF HasEq(e) THEN e ELSE e \o <<"=">>

CurEntries == IF input.cur_env = None THEN << >> ELSE input.cur_env[1]

CurKeys == {EntryKey(CurEntries[i]) : i \in 1..Len(CurEntries)}

NewKeys == DOMAIN input.new_env

\* The last entry of the current list with key k.
LastCurEntry(k) ==
    LET idx == {i \in 1..Len(CurEntries) : EntryKey(CurEntries[i]) = k}
    IN  CurEntries[CHOOSE i \in idx : \A j \in idx : j <= i]

Merged == output.fn = "merge_env"

ResultEntries == DOMAIN output.result

\* The result has exactly one entry for key k.
OneEntryFor(k) ==
    \E e \in ResultEntries :
        /\ EntryKey(e) = k
        /\ output.result[e] = 1
        /\ \A f \in ResultEntries : EntryKey(f) = k => f = e

NewKeysWellFormed == \A k \in NewKeys : ~HasEq(k)

\* C1 as stated: for a key in both inputs, the result holds the new-env value.
C1_NewEnvWins ==
    Merged =>
        \A k \in NewKeys \cap CurKeys :
            (k \o <<"=">> \o input.new_env[k]) \in ResultEntries

\* C1, amended: for a key that occurs in both inputs, the result holds the
\* current-env value (that of the key's last entry in the current list), and
\* when no new-env key contains '=', that is the only entry of the key: the
\* current list wins on collision.
C1_CurEnvWins ==
    Merged =>
        \A k \in NewKeys \cap CurKeys :
            /\ AsKeyValue(LastCurEntry(k)) \in ResultEntries
            /\ NewKeysWellFormed =>
                 \A e \in ResultEntries : EntryKey(e) = k => e = AsKeyValue(LastCurEntry(k))

\* A collision with different values has been merged.
C1_Witness ==
    /\ Merged
    /\ \E k \in NewKeys \cap CurKeys :
         (k \o <<"=">> \o input.new_env[k]) /= AsKeyValue(LastCurEntry(k))

\* The body of C2, for the inputs and the result at hand.
KeyUnion ==
    /\ {EntryKey(e) : e \in ResultEntries} = NewKeys \cup CurKeys
    /\ \A k \in NewKeys \cup CurKeys : OneEntryFor(k)
    /\ (NewKeys = {} /\ CurKeys = {}) => output.result = EmptyBag

\* C2 as stated: for every new-env mapping the keys of the result are the
\* union of the keys of the inputs, one entry each, and a key of the current
\* list alone keeps a value it has there.
C2_KeyUnionAlways ==
    Merged =>
        /\ KeyUnion
        /\ \A k \in CurKeys \ NewKeys :
             \E i \in 1..Len(CurEntries) :
                 /\ EntryKey(CurEntries[i]) = k
                 /\ AsKeyValue(CurEntries[i]) \in ResultEntries

\* C2, amended: when no key of the new-env mapping contains '=', the keys of
\* the result are the union of the keys of both inputs, each key has exactly
\* one entry, a key of the current list alone keeps the value of its last
\* current entry, and two empty inputs give the empty result.
C2_KeyUnion ==
    (Merged /\ NewKeysWellFormed) =>
        /\ KeyUnion
        /\ \A k \in CurKeys \ NewKeys : AsKeyValue(LastCurEntry(k)) \in ResultEntries

\* Disjoint, non-empty key sets have been merged.
C2_Witness ==
    /\ Merged
    /\ NewKeysWellFormed
    /\ NewKeys /= {}
    /\ CurKeys \ NewKeys /= {}
    /\ \E i \in 1..Len(CurEntries) : Len(EnvValue(CurEntries[i])) > 0

-----------------------------------------------------------------------------
(* Properties of the adapter's calls *)

Blank(s) == \A i \in 1..Len(s) : s[i] = " "

NameChecked == {"pull", "remove_image", "start", "stop", "restart", "remove"}

\* C3: pull, remove_image, start, stop, restart and remove, called with a
\* name or id that is empty or only whitespace, complete with the
\* ArgumentEmpty validation error and send no engine request.
C3_EmptyNameRejected ==
    \A c \in Callers :
        (calls[c].op \in NameChecked /\ Blank(calls[c].args[1])) =>
            /\ calls[c].status = "done"
            /\ calls[c].result = [tag |-> "err", kind |-> "Utils", detail |-> "ArgumentEmpty"]
            /\ calls[c].sent = << >>

\* stop has been called with a whitespace-only id.
C3_Witness ==
    \E c \in Callers :
        /\ calls[c].op = "stop"
        /\ calls[c].args[1] = <<" ">>
        /\ calls[c].status = "done"

StepsOf(call) == {call.steps[i] : i \in 1..Len(call.steps)}

\* C4: create on a spec whose type is not "docker" fails with a validation
\* error, sends no engine request, and has neither copied nor merged the
\* create-options when it fails.
C4_WrongTypeRejected ==
    \A c \in Callers :
        (calls[c].op = "create" /\ calls[c].args[1].type /= "docker") =>
            /\ calls[c].status = "done"
            /\ calls[c].result.tag = "err"
            /\ calls[c].result.kind = "Utils"
            /\ calls[c].sent = << >>
            /\ StepsOf(calls[c]) \cap {"clone_create_options", "merge_env", "with_env",
                                       "with_networking_config", "container_create"} = {}

\* create has been called with a spec of another type.
C4_Witness ==
    \E c \in Callers :
        /\ calls[c].op = "create"
        /\ calls[c].args[1].type = "not_docker"
        /\ calls[c].status = "done"

\* The endpoints of the create-options of a module spec.
EndpointsOf(create_options) ==
    IF create_options.networking_config = None THEN [x \in {} |-> None]
    ELSE IF create_options.networking_config[1].endpoints_config = None
         THEN [x \in {} |-> None]
         ELSE create_options.networking_config[1].endpoints_config[1]

\* C5: with a network id N configured, the endpoints sent by create have N as
\* a key, keep every endpoint entry of the spec's create-options with its
\* settings (an entry for N included), have no other key, and attaching N to
\* the sent create-options again changes nothing.
C5_NetworkAttached ==
    \A c \in Callers :
        (calls[c].op = "create" /\ calls[c].sent /= << >> /\ network_id /= None) =>
            LET N == network_id[1]
                body == calls[c].sent[1].args[1]
                given == EndpointsOf(calls[c].args[1].config.create_options)
            IN  /\ body.networking_config /= None
                /\ body.networking_config[1].endpoints_config /= None
                /\ N \in DOMAIN EndpointsOf(body)
                /\ DOMAIN EndpointsOf(body) = (DOMAIN given) \cup {N}
                /\ \A k \in DOMAIN given : EndpointsOf(body)[k] = given[k]
                /\ EndpointsOf(attach_network(N, body)) = EndpointsOf(body)

\* create has sent a request for a spec that already has an endpoint entry,
\* with settings of its own, for the configured network id.
C5_Witness ==
    \E c \in Callers :
        /\ calls[c].op = "create"
        /\ calls[c].sent /= << >>
        /\ network_id /= None
        /\ network_id[1] \in DOMAIN EndpointsOf(calls[c].args[1].config.create_options)
        /\ EndpointsOf(calls[c].args[1].config.create_options)[network_id[1]]
             /= [ipv4_address |-> << >>]

\* The grace period of the requests of stop and restart, for the calls at hand.
GracePeriodSent ==
    \A c \in Callers :
        /\ (calls[c].op = "stop" /\ ~Blank(calls[c].args[1])) =>
              calls[c].sent = <<[api |-> "container_stop",
                                 args |-> <<calls[c].args[1], 10>>]>>
        /\ (calls[c].op = "restart" /\ ~Blank(calls[c].args[1])) =>
              calls[c].sent = <<[api |-> "container_restart",
                                 args |-> <<calls[c].args[1], 10>>]>>

\* C9 as stated: remove sends one container-delete request for the id with
\* all three flags set; stop and restart send a grace period of 10 seconds.
C9_RemoveAllFlags ==
    /\ GracePeriodSent
    /\ \A c \in Callers :
         (calls[c].op = "remove" /\ ~Blank(calls[c].args[1])) =>
             calls[c].sent = <<[api |-> "container_delete",
                                args |-> <<calls[c].args[1], TRUE, TRUE, TRUE>>]>>

\* C9, amended: remove sends one container-delete request for the id whose
\* three flags are, in the order of the call, false, true, true; stop and
\* restart send a grace period of 10 seconds.
C9_RemoveFlags ==
    /\ GracePeriodSent
    /\ \A c \in Callers :
         (calls[c].op = "remove" /\ ~Blank(calls[c].args[1])) =>
             calls[c].sent = <<[api |-> "container_delete",
                                args |-> <<calls[c].args[1], FALSE, TRUE, TRUE>>]>>

\* remove has sent its request.
C9_Witness ==
    \E c \in Callers :
        /\ calls[c].op = "remove"
        /\ calls[c].args[1] = <<"m">>
        /\ Len(calls[c].sent) = 1

\* C10: a call sends at most one engine request, and a call whose request the
\* engine has failed is complete, with the engine's error as its result and
\* that one request sent.
C10_NoRetry ==
    \A c \in Callers :
        /\ Len(calls[c].sent) <= 1
        /\ calls[c].response = "failure" =>
             /\ calls[c].status = "done"
             /\ calls[c].result = [tag |-> "err", kind |-> "Docker", detail |-> ""]
             /\ Len(calls[c].sent) = 1

\* The engine has failed the request of a call.
C10_Witness ==
    \E c \in Callers :
        /\ calls[c].op = "list"
        /\ calls[c].response = "failure"
        /\ calls[c].status = "done"

-----------------------------------------------------------------------------
(* Properties of serialize_registry_creds *)

Serialized == output.fn = "serialize_registry_creds"

\* The JSON name of each field of the credentials.
JsonNameOf == [user_name |-> "username", password |-> "password",
               email |-> "email", server |-> "serveraddress"]

\* The (name, value) members of a JSON object given as tokens.
MembersOf(t) ==
    {<<t[i - 1].string, t[i + 1].string>> :
        i \in {j \in 2..(Len(t) - 1) : t[j] = [punct |-> ":"]}}

StringTokens(t) == {i \in 1..Len(t) : "string" \in DOMAIN t[i]}

\* C6: absent credentials serialize to the empty string, not to null or to an
\* empty object; present credentials serialize to one JSON object that has a
\* member, with its value, for each field that is set and no other member.
C6_CredsSerialized ==
    Serialized =>
        IF input.credentials = None
        THEN /\ output.result = << >>
             /\ output.result /= <<[string |-> "null"]>>
             /\ output.result /= <<[punct |-> "{"], [punct |-> "}"]>>
        ELSE LET creds == input.credentials[1]
                 set == {f \in DOMAIN creds : creds[f] /= << >>}
                 t == output.result
             IN  /\ Len(t) >= 2
                 /\ t[1] = [punct |-> "{"]
                 /\ t[Len(t)] = [punct |-> "}"]
                 /\ MembersOf(t) = {<<JsonNameOf[f], creds[f][1]>> : f \in set}
                 /\ Cardinality(StringTokens(t)) = 2 * Cardinality(set)

\* Credentials with the email set and the password unset have been serialized.
C6_Witness ==
    /\ Serialized
    /\ input.credentials /= << >>
    /\ input.credentials[1].email = <<"x">>
    /\ input.credentials[1].password = << >>

-----------------------------------------------------------------------------
(* Properties of list() *)

Listed == output.fn = "list"

Derivable(container) == container.labels.wellformed

Derived == SelectSeq(input.containers, Derivable)

\* C7: for every sequence of records list() succeeds and returns one
\* descriptor, in the engine's order, for each record whose Config can be
\* derived, and none for the others.
C7_ListSkipsUndecodable ==
    Listed =>
        /\ output.result.tag = "ok"
        /\ Len(output.result.value) = Len(Derived)
        /\ \A i \in 1..Len(Derived) :
             /\ output.result.value[i].config.image = Derived[i].image
             /\ output.result.value[i].config.create_options.labels
                  = <<Derived[i].labels.entries>>

\* The first name of a record without its leading separator.
Stripped(s) == IF s /= << >> /\ s[1] = "/" THEN SubSeq(s, 2, Len(s)) ELSE s

\* C8: the display name of every descriptor is the first reported name of its
\* record without the leading separator, or "Unknown" when the record reports
\* no name, whatever the first name is, and list() does not fail.
C8_DisplayName ==
    Listed =>
        /\ output.result.tag = "ok"
        /\ Len(output.result.value) = Len(Derived)
        /\ \A i \in 1..Len(Derived) :
             output.result.value[i].name =
                 IF Derived[i].names = << >>
                 THEN <<"U", "n", "k", "n", "o", "w", "n">>
                 ELSE Stripped(Derived[i].names[1])

-----------------------------------------------------------------------------
(* Properties of concurrent calls *)

\* Two calls of the same operation with the same arguments that have sent a
\* request have sent the same request.
RequestsDetermined ==
    \A c, d \in DOMAIN calls :
        (/\ calls[c].op = calls[d].op
         /\ calls[c].args = calls[d].args
         /\ calls[c].sent /= << >>
         /\ calls[d].sent /= << >>) => calls[c].sent = calls[d].sent

\* No step changes the network id of the adapter or a request already sent,
\* and a step of one call leaves every other call as it was.
CallsIsolated ==
    /\ network_id' = network_id
    /\ \A c \in DOMAIN calls :
         /\ calls[c].sent /= << >> => calls'[c].sent = calls[c].sent
         /\ calls'[c] /= calls[c] => \A d \in (DOMAIN calls) \ {c} : calls'[d] = calls[d]

-----------------------------------------------------------------------------
(* Properties of create *)

Created == output.fn = "create"

-----------------------------------------------------------------------------
(* Properties of create followed by list *)

OwnerKey == "net.azure-devices.edge.owner"

OwnerValue == "Microsoft.Azure.Devices.Edge.Agent"

HasOwnerLabel(labels) == OwnerKey \in DOMAIN labels /\ labels[OwnerKey] = OwnerValue

\* The containers of the engine that lack the ownership label.
Unowned == {i \in 1..Len(engine) : ~HasOwnerLabel(engine[i].labels.entries)}

\* The display names list() has returned to caller c.
ListedNames(c) ==
    {calls[c].result.value[i].name : i \in 1..Len(calls[c].result.value)}

\* C13: the labels of a container-create request are those of the spec's
\* create-options, the ownership label is never added; list() asks for the
\* containers with the ownership label and for nothing else; so a list() that
\* follows a successful create of a spec without that label returns no
\* descriptor for that module, nor for any other container without the label.
C13_CreatedButNotListed ==
    \A c \in Callers :
        /\ (calls[c].op = "create" /\ calls[c].sent /= << >>) =>
              calls[c].sent[1].args[1].labels = calls[c].args[1].config.create_options.labels
        /\ (calls[c].op = "list" /\ calls[c].sent /= << >>) =>
              calls[c].sent[1].args[4] =
                  <<[punct |-> "{"], [string |-> "label"], [punct |-> ":"], [punct |-> "["],
                    [string |-> "net.azure-devices.edge.owner=Microsoft.Azure.Devices.Edge.Agent"],
                    [punct |-> "]"], [punct |-> "}"]>>
        /\ (calls[c].op = "list" /\ calls[c].result.tag = "ok") =>
              /\ \A i \in Unowned : SubSeq(engine[i].names[1], 2, 2) \notin ListedNames(c)
              /\ \A i \in 1..Len(calls[c].result.value) :
                   HasOwnerLabel(calls[c].result.value[i].config.create_options.labels[1])

\* list() has answered after the module m1 was created without the ownership
\* label, and it has returned the one container that carries the label.
C13_Witness ==
    \E c \in Callers :
        /\ calls[c].op = "list"
        /\ calls[c].result.tag = "ok"
        /\ \E i \in Unowned : engine[i].names[1] = <<"/", "m1">>
        /\ ListedNames(c) = {<<"edgeAgent">>}

=============================================================================
